---- MODULE Spec2Model ----
(***************************************************************************)
(* ECDH key exchange of react-native-quick-crypto: the native HybridEcdh   *)
(* object (one EVP_PKEY handle per instance) and the ECDH class that wraps *)
(* it.  The curve arithmetic that the code delegates to OpenSSL is carried *)
(* out on a curve of the same shape as secp256k1 (y^2 = x^3 + 7 over a     *)
(* prime field, prime group order, cofactor 1) that is small enough to     *)
(* enumerate; the byte lengths are the real ones.                          *)
(***************************************************************************)
EXTENDS Integers, Sequences, FiniteSets, TLC

VARIABLES curve, pkey, last, everKeyed, lastInstalled, codec, rng, writer

vars == <<curve, pkey, last, everKeyed, lastInstalled, codec, rng, writer>>

(***************************************************************************)
(* Curve parameters (NID_secp256k1, scaled down).                          *)
(***************************************************************************)
FieldP == 13
CurveB == 7
OrderN == 7

\* Inputs of the model: private-key values 0..MaxScalarInput are offered to
\* setPrivateKey, coordinates 0..MaxCoord to computeSecret.
MaxScalarInput == 8
MaxCoord == 13

PrivLen == 32
FieldLen == 32
CompressedLen == 33
UncompressedLen == 65

Instances == {"alice", "bob"}

INF == <<>>
Gen == <<7, 5>>

Byte == 0..255

(***************************************************************************)
(* Field and group arithmetic (OpenSSL's EC_POINT_* on the group).         *)
(***************************************************************************)
Mod(a) == a % FieldP

FieldInv(a) == IF Mod(a) = 0 THEN 0 ELSE CHOOSE b \in 1..(FieldP - 1) : Mod(a * b) = 1

\* EC_POINT_is_on_curve: an affine pair in the field satisfying y^2 = x^3 + 7.
EC_POINT_is_on_curve(pt) ==
    /\ pt # INF
    /\ pt[1] \in 0..(FieldP - 1)
    /\ pt[2] \in 0..(FieldP - 1)
    /\ Mod(pt[2] * pt[2]) = Mod(pt[1] * pt[1] * pt[1] + CurveB)

EC_POINT_is_at_infinity(pt) == pt = INF

EC_POINT_add(p1, p2) ==
    IF p1 = INF THEN p2
    ELSE IF p2 = INF THEN p1
    ELSE IF p1[1] = p2[1] /\ Mod(p1[2] + p2[2]) = 0 THEN INF
    ELSE LET lam == IF p1 = p2
                    THEN Mod(3 * p1[1] * p1[1] * FieldInv(2 * p1[2]))
                    ELSE Mod((p2[2] - p1[2] + FieldP) * FieldInv(p2[1] - p1[1] + FieldP))
             x3 == Mod(lam * lam + 2 * FieldP - p1[1] - p2[1])
             y3 == Mod(lam * (p1[1] + FieldP - x3) + FieldP - p1[2])
         IN <<x3, y3>>

RECURSIVE EC_POINT_mul(_, _)
EC_POINT_mul(k, pt) ==
    IF k = 0 THEN INF ELSE EC_POINT_add(EC_POINT_mul(k - 1, pt), pt)

(***************************************************************************)
(* Big-endian byte strings (BN_bin2bn, BN_bn2binpad).                      *)
(***************************************************************************)
RECURSIVE BN_bin2bn(_)
BN_bin2bn(bytes) ==
    IF Len(bytes) = 0 THEN 0
    ELSE 256 * BN_bin2bn(SubSeq(bytes, 1, Len(bytes) - 1)) + bytes[Len(bytes)]

RECURSIVE BN_bn2bin(_)
BN_bn2bin(v) ==
    IF v = 0 THEN <<>> ELSE Append(BN_bn2bin(v \div 256), v % 256)

Zeros(n) == [k \in 1..n |-> 0]

\* Mutant: BN_bn2bin in place of BN_bn2binpad, leading zero bytes dropped.
BN_bn2binpad_unpadded(v, tolen) == BN_bn2bin(v)

\* BN_bn2binpad(v, buf, tolen): the minimal encoding left-padded with zero
\* bytes; <<>> (the -1 return) when it does not fit.
BN_bn2binpad(v, tolen) ==
    LET raw == BN_bn2bin(v)
    IN IF Len(raw) > tolen THEN <<>> ELSE Zeros(tolen - Len(raw)) \o raw

(***************************************************************************)
(* Point encodings (EC_POINT_point2oct, EC_POINT_oct2point).               *)
(***************************************************************************)
POINT_CONVERSION_COMPRESSED == 2
POINT_CONVERSION_UNCOMPRESSED == 4
POINT_CONVERSION_HYBRID == 6

\* Mutant: the compressed form's leading byte carries the parity of x.
EC_POINT_point2oct_parityOfX(pt, form) ==
    IF pt = INF THEN <<0>>
    ELSE IF form = POINT_CONVERSION_COMPRESSED
    THEN <<form + (pt[1] % 2)>> \o BN_bn2binpad(pt[1], FieldLen)
    ELSE <<form>> \o BN_bn2binpad(pt[1], FieldLen) \o BN_bn2binpad(pt[2], FieldLen)

\* EC_POINT_point2oct: the point at infinity is the single byte 0; otherwise
\* form (+ parity of y for the compressed and hybrid forms), then x, then y
\* unless compressed, each coordinate padded to the field length.
EC_POINT_point2oct(pt, form) ==
    IF pt = INF THEN <<0>>
    ELSE LET lead == IF form = POINT_CONVERSION_UNCOMPRESSED THEN form
                     ELSE form + (pt[2] % 2)
         IN IF form = POINT_CONVERSION_COMPRESSED
            THEN <<lead>> \o BN_bn2binpad(pt[1], FieldLen)
            ELSE <<lead>> \o BN_bn2binpad(pt[1], FieldLen) \o BN_bn2binpad(pt[2], FieldLen)

\* Mutant: the root of the other parity is taken.
RootsOf_otherParity(x, ybit) ==
    {y \in 0..(FieldP - 1) : Mod(y * y) = Mod(x * x * x + CurveB) /\ y % 2 # ybit}

\* The square roots of x^3 + 7 with the wanted parity (none, or one).
RootsOf(x, ybit) ==
    {y \in 0..(FieldP - 1) : Mod(y * y) = Mod(x * x * x + CurveB) /\ y % 2 = ybit}

NoPoint == [ok |-> FALSE, pt |-> INF]

\* Mutant: the coordinates of an uncompressed string are taken as they are,
\* without the range and curve-equation checks.
EC_POINT_oct2point_unchecked(buf) ==
    IF Len(buf) = 1 + 2 * FieldLen /\ buf[1] = POINT_CONVERSION_UNCOMPRESSED
    THEN [ok |-> TRUE, pt |-> <<BN_bin2bn(SubSeq(buf, 2, 1 + FieldLen)),
                               BN_bin2bn(SubSeq(buf, 2 + FieldLen, 1 + 2 * FieldLen))>>]
    ELSE NoPoint

\* EC_POINT_oct2point: [ok, pt].  The leading byte carries the form in its
\* upper bits and the parity of y in bit 0; the forms are 0 (infinity, one
\* byte), 2 (compressed), 4 (uncompressed) and 6 (hybrid); the length must be
\* the form's; coordinates must be below the field prime; the point must
\* satisfy the curve equation.
EC_POINT_oct2point(buf) ==
    IF Len(buf) = 0 THEN NoPoint
    ELSE LET ybit == buf[1] % 2
             form == buf[1] - ybit
         IN IF form \notin {0, POINT_CONVERSION_COMPRESSED,
                            POINT_CONVERSION_UNCOMPRESSED, POINT_CONVERSION_HYBRID}
            THEN NoPoint
            ELSE IF (form = 0 \/ form = POINT_CONVERSION_UNCOMPRESSED) /\ ybit = 1
            THEN NoPoint
            ELSE IF form = 0
            THEN (IF Len(buf) = 1 THEN [ok |-> TRUE, pt |-> INF] ELSE NoPoint)
            ELSE IF Len(buf) # (IF form = POINT_CONVERSION_COMPRESSED
                                THEN 1 + FieldLen ELSE 1 + 2 * FieldLen)
            THEN NoPoint
            ELSE LET x == BN_bin2bn(SubSeq(buf, 2, 1 + FieldLen))
                 IN IF x >= FieldP THEN NoPoint
                    ELSE IF form = POINT_CONVERSION_COMPRESSED
                    THEN (IF RootsOf(x, ybit) = {} THEN NoPoint
                          ELSE [ok |-> TRUE, pt |-> <<x, CHOOSE y \in RootsOf(x, ybit) : TRUE>>])
                    ELSE LET y == BN_bin2bn(SubSeq(buf, 2 + FieldLen, 1 + 2 * FieldLen))
                         IN IF y >= FieldP THEN NoPoint
                            ELSE IF form = POINT_CONVERSION_HYBRID /\ y % 2 # ybit
                            THEN NoPoint
                            ELSE IF ~EC_POINT_is_on_curve(<<x, y>>) THEN NoPoint
                            ELSE [ok |-> TRUE, pt |-> <<x, y>>]

(***************************************************************************)
(* The native object HybridEcdh: one EVP_PKEY handle, NULL or a key whose  *)
(* EC_KEY holds a private BIGNUM and a public EC_POINT.                    *)
(***************************************************************************)
NULL ==
    [null |-> TRUE, hasPriv |-> FALSE, priv |-> 0, hasPub |-> FALSE, pub |-> INF,
     freed |-> FALSE]

\* Mutant: the key is installed with its private scalar only (the public
\* point is never set on the EC_KEY).
EVP_PKEY_privateOnly(d, Q) ==
    [null |-> FALSE, hasPriv |-> TRUE, priv |-> d, hasPub |-> FALSE, pub |-> INF,
     freed |-> FALSE]

EVP_PKEY(d, Q) ==
    [null |-> FALSE, hasPriv |-> TRUE, priv |-> d, hasPub |-> TRUE, pub |-> Q,
     freed |-> FALSE]

\* The OpenSSL calls whose failure the code tests for, by handler; a call of
\* a handler runs with at most one of them failing for a reason of the
\* library's own (allocation), "none" being the normal run.
FaultsOf(op) ==
    {"none"} \cup
    CASE op = "generateKeys" ->
           {"EC_KEY_new_by_curve_name", "EC_KEY_generate_key", "EVP_PKEY_new",
            "EVP_PKEY_set1_EC_KEY"}
      [] op = "getPublicKey" ->
           {"EVP_PKEY_get0_EC_KEY", "EC_POINT_point2oct", "EC_POINT_point2oct(buf)"}
      [] op = "getPrivateKey" -> {"EVP_PKEY_get0_EC_KEY", "BN_bn2binpad"}
      [] op = "setPrivateKey" ->
           {"EC_KEY_new_by_curve_name", "BN_bin2bn", "BN_new", "EC_GROUP_get_order",
            "EC_KEY_set_private_key", "EC_POINT_new", "EC_POINT_mul",
            "EC_KEY_set_public_key", "EVP_PKEY_new", "EVP_PKEY_set1_EC_KEY"}
      [] op = "computeSecret" ->
           {"EC_KEY_new_by_curve_name", "EC_POINT_new", "EC_POINT_oct2point",
            "EC_KEY_set_public_key", "EVP_PKEY_new", "EVP_PKEY_set1_EC_KEY",
            "EVP_PKEY_CTX_new", "EVP_PKEY_derive_init", "EVP_PKEY_derive_set_peer",
            "EVP_PKEY_derive_len", "EVP_PKEY_derive"}

\* An error message is the literal of the throw followed, where the code
\* appends it, by the text getOpenSSLError() returns.
Msg(text) == <<text>>
MsgSSL(text) == <<text, "getOpenSSLError()">>

ERR_INVALID_PUBLIC_KEY == "ERR_CRYPTO_ECDH_INVALID_PUBLIC_KEY"

\* What a native call leaves behind: whether it returned or threw, the
\* message, the returned bytes, the calls it made in order, the peer point
\* it decoded (computeSecretRaw), and the instance's key handle afterwards.
\* `internal` marks a throw caused by a failing library call rather than by
\* the caller's argument or the instance's state.
Throw(msg, tr, pk) ==
    [ok |-> FALSE, internal |-> FALSE, err |-> msg, out |-> <<>>, trace |-> tr,
     peer |-> <<>>, pkey |-> pk]

Fail(msg, tr, pk) == [Throw(msg, tr, pk) EXCEPT !.internal = TRUE]

Return(bytes, tr, pk) ==
    [ok |-> TRUE, internal |-> FALSE, err |-> <<>>, out |-> bytes, trace |-> tr,
     peer |-> <<>>, pkey |-> pk]

\* Mutant: the key is freed and the handle keeps pointing at it.
FreeHandle_notNulled(pk) == IF pk.null THEN pk ELSE [pk EXCEPT !.freed = TRUE]

\* EVP_PKEY_free(this->pkey); this->pkey = nullptr;  -- the handle afterwards.
FreeHandle(pk) == NULL

\* Mutant: the handle of a key already held is overwritten without the key
\* being freed.
ReleaseHeld_leaks(pk) == <<"clearOpenSSLErrors">>

\* The prologue generateKeys and setPrivateKeyRaw share: the OpenSSL error
\* queue is cleared and a key already held is freed and the handle nulled.
ReleaseHeld(pk) ==
    <<"clearOpenSSLErrors">> \o (IF pk.null THEN <<>> ELSE <<"EVP_PKEY_free(pkey)">>)

\* EC_KEY_generate_key: a scalar d drawn from [1, n-1] and the point d*G.
EC_KEY_generate_key(d) == EVP_PKEY(d, EC_POINT_mul(d, Gen))

\* HybridEcdh::generateKeys; d is the scalar EC_KEY_generate_key draws.
generateKeys(pk, d, fault) ==
    LET t1 == ReleaseHeld(pk) \o <<"EC_KEY_new_by_curve_name">>
        t2 == t1 \o <<"EC_KEY_generate_key">>
        t3 == t2 \o <<"EVP_PKEY_new">>
        t4 == t3 \o <<"EVP_PKEY_set1_EC_KEY">>
    IN IF fault = "EC_KEY_new_by_curve_name"
       THEN Fail(MsgSSL("Failed to create EC_KEY: "), t1, FreeHandle(pk))
       ELSE IF fault = "EC_KEY_generate_key"
       THEN Fail(MsgSSL("Failed to generate EC key: "), t2 \o <<"EC_KEY_free(ec)">>,
                 FreeHandle(pk))
       ELSE IF fault = "EVP_PKEY_new"
       THEN Fail(MsgSSL("Failed to create EVP_PKEY: "), t3 \o <<"EC_KEY_free(ec)">>, NULL)
       ELSE IF fault = "EVP_PKEY_set1_EC_KEY"
       THEN Fail(MsgSSL("Failed to set EC_KEY on EVP_PKEY: "),
                 t4 \o <<"EVP_PKEY_free(pkey)", "EC_KEY_free(ec)">>,
                 FreeHandle(EC_KEY_generate_key(d)))
       ELSE Return(<<>>, t4 \o <<"EC_KEY_free(ec)">>,
                   EC_KEY_generate_key(d))

\* HybridEcdh::getPublicKeyRaw; format 0 is compressed, anything else
\* uncompressed.
getPublicKeyRaw(pk, format, fault) ==
    IF pk.null THEN Throw(Msg("No key pair generated"), <<>>, pk)
    ELSE IF fault = "EVP_PKEY_get0_EC_KEY"
    THEN Fail(MsgSSL("Failed to get EC_KEY: "), <<"EVP_PKEY_get0_EC_KEY">>, pk)
    ELSE IF ~pk.hasPub
    THEN Throw(Msg("No public key available"),
               <<"EVP_PKEY_get0_EC_KEY", "EC_KEY_get0_public_key">>, pk)
    ELSE LET convForm == IF format = 0 THEN POINT_CONVERSION_COMPRESSED
                         ELSE POINT_CONVERSION_UNCOMPRESSED
             buf == EC_POINT_point2oct(pk.pub, convForm)
             t1 == <<"EVP_PKEY_get0_EC_KEY", "EC_KEY_get0_public_key", "EC_POINT_point2oct">>
             t2 == t1 \o <<"new uint8_t[]", "EC_POINT_point2oct">>
         IN IF fault = "EC_POINT_point2oct" \/ Len(buf) = 0
            THEN Fail(MsgSSL("Failed to get public key size: "), t1, pk)
            ELSE IF fault = "EC_POINT_point2oct(buf)"
            THEN Fail(MsgSSL("Failed to export public key: "), t2 \o <<"delete[] buf">>, pk)
            ELSE Return(buf, t2, pk)

\* HybridEcdh::getPrivateKeyRaw.
getPrivateKeyRaw(pk, fault) ==
    IF pk.null THEN Throw(Msg("No key pair generated"), <<>>, pk)
    ELSE IF fault = "EVP_PKEY_get0_EC_KEY"
    THEN Fail(MsgSSL("Failed to get EC_KEY: "), <<"EVP_PKEY_get0_EC_KEY">>, pk)
    ELSE IF ~pk.hasPriv
    THEN Throw(Msg("No private key available"),
               <<"EVP_PKEY_get0_EC_KEY", "EC_KEY_get0_private_key">>, pk)
    ELSE LET t1 == <<"EVP_PKEY_get0_EC_KEY", "EC_KEY_get0_private_key",
                     "new uint8_t[]", "BN_bn2binpad">>
             buf == BN_bn2binpad(pk.priv, PrivLen)
         IN IF fault = "BN_bn2binpad" \/ Len(buf) # PrivLen
            THEN Fail(MsgSSL("Failed to export private key: "), t1 \o <<"delete[] buf">>, pk)
            ELSE Return(buf, t1, pk)

\* Mutants: the comparison with the order is off by one; the zero test is
\* missing.
PrivateKeyOutOfRange_offByOne(privBn) == privBn = 0 \/ privBn > OrderN

PrivateKeyOutOfRange_noZeroTest(privBn) == privBn >= OrderN

\* EC_KEY_check of the private scalar as setPrivateKeyRaw spells it out:
\* BN_is_zero(privBn) || BN_cmp(privBn, order) >= 0.
PrivateKeyOutOfRange(privBn) == privBn = 0 \/ privBn >= OrderN

\* Mutant: the scalar is not handed to EC_POINT_mul, which then yields the
\* point at infinity.
PublicFromPrivate_noScalar(privBn) == INF

\* EC_POINT_mul(group, pubPoint, privBn, nullptr, nullptr, nullptr): the
\* generator times the scalar.
PublicFromPrivate(privBn) == EC_POINT_mul(privBn, Gen)

\* HybridEcdh::~HybridEcdh: a key still held is freed.
destructor(pk) ==
    Return(<<>>, IF pk.null THEN <<>> ELSE <<"EVP_PKEY_free(pkey)">>, NULL)

\* The calls that release an object holding a private scalar: the stored key
\* (EVP_PKEY_free of the instance's handle, EC_KEY_free of a key that has
\* been given the scalar) and the BIGNUM setPrivateKeyRaw builds.
ScalarFrees == {"EVP_PKEY_free(pkey)", "EC_KEY_free(ec)", "BN_free(privBn)"}

\* Whether the call overwrites the scalar before releasing its memory:
\* EC_KEY_free releases the private key with BN_clear_free (so does
\* EVP_PKEY_free, through it); BN_free releases the memory as it is.
Overwrites(free) == free \in {"EVP_PKEY_free(pkey)", "EC_KEY_free(ec)"}

\* Mutant: only keys that are too long are turned away.
InvalidPrivateKeySize_tooLongOnly(size) == size > PrivLen

\* privateKey->size() != 32
InvalidPrivateKeySize(size) == size # PrivLen

\* HybridEcdh::setPrivateKeyRaw.
setPrivateKeyRaw(pk, privateKey, fault) ==
    IF InvalidPrivateKeySize(Len(privateKey)) THEN Throw(Msg("Invalid private key size"), <<>>, pk)
    ELSE
    LET privBn == BN_bin2bn(privateKey)
        t1 == ReleaseHeld(pk) \o <<"EC_KEY_new_by_curve_name">>
        t2 == t1 \o <<"BN_bin2bn">>
        t3 == t2 \o <<"EC_KEY_get0_group", "BN_new">>
        t4 == t3 \o <<"EC_GROUP_get_order">>
        t5 == t4 \o <<"BN_is_zero", "BN_cmp">>
        t6 == t5 \o <<"BN_free(order)", "EC_KEY_set_private_key">>
        t7 == t6 \o <<"EC_POINT_new">>
        t8 == t7 \o <<"EC_POINT_mul">>
        t9 == t8 \o <<"EC_KEY_set_public_key">>
        t10 == t9 \o <<"EC_POINT_free(pubPoint)", "BN_free(privBn)", "EVP_PKEY_new">>
        t11 == t10 \o <<"EVP_PKEY_set1_EC_KEY">>
        freeBnEc == <<"BN_free(privBn)", "EC_KEY_free(ec)">>
        freePtBnEc == <<"EC_POINT_free(pubPoint)">> \o freeBnEc
    IN IF fault = "EC_KEY_new_by_curve_name"
       THEN Fail(MsgSSL("Failed to create EC_KEY: "), t1, FreeHandle(pk))
       ELSE IF fault = "BN_bin2bn"
       THEN Fail(MsgSSL("Failed to create BIGNUM from private key: "),
                 t2 \o <<"EC_KEY_free(ec)">>, FreeHandle(pk))
       ELSE IF fault = "BN_new"
       THEN Fail(Msg("Failed to allocate BIGNUM for order"), t3 \o freeBnEc, FreeHandle(pk))
       ELSE IF fault = "EC_GROUP_get_order"
       THEN Fail(MsgSSL("Failed to get curve order: "),
                 t4 \o <<"BN_free(order)">> \o freeBnEc, FreeHandle(pk))
       ELSE IF PrivateKeyOutOfRange(privBn)
       THEN Throw(Msg("Private key out of range"), t5 \o <<"BN_free(order)">> \o freeBnEc,
                  FreeHandle(pk))
       ELSE IF fault = "EC_KEY_set_private_key"
       THEN Fail(MsgSSL("Failed to set private key: "), t6 \o freeBnEc, FreeHandle(pk))
       ELSE IF fault = "EC_POINT_new"
       THEN Fail(MsgSSL("Failed to create EC_POINT: "), t7 \o freeBnEc, FreeHandle(pk))
       ELSE IF fault = "EC_POINT_mul"
       THEN Fail(MsgSSL("Failed to compute public key: "), t8 \o freePtBnEc, FreeHandle(pk))
       ELSE IF fault = "EC_KEY_set_public_key"
       THEN Fail(MsgSSL("Failed to set public key: "), t9 \o freePtBnEc, FreeHandle(pk))
       ELSE IF fault = "EVP_PKEY_new"
       THEN Fail(MsgSSL("Failed to create EVP_PKEY: "), t10 \o <<"EC_KEY_free(ec)">>, NULL)
       ELSE IF fault = "EVP_PKEY_set1_EC_KEY"
       THEN Fail(MsgSSL("Failed to set EC_KEY on EVP_PKEY: "),
                 t11 \o <<"EVP_PKEY_free(pkey)", "EC_KEY_free(ec)">>,
                 FreeHandle(EVP_PKEY(privBn, PublicFromPrivate(privBn))))
       ELSE Return(<<>>, t11 \o <<"EC_KEY_free(ec)">>,
                   EVP_PKEY(privBn, PublicFromPrivate(privBn)))

\* The check EVP_PKEY_derive_set_peer makes of the peer key
\* (EVP_PKEY_public_check): not the point at infinity, and on the curve.
EVP_PKEY_public_check(Q) == ~EC_POINT_is_at_infinity(Q) /\ EC_POINT_is_on_curve(Q)

\* Mutant: the local scalar is multiplied into the generator instead of the
\* peer's point.
EVP_PKEY_derive_ownPoint(d, Q) ==
    LET R == EC_POINT_mul(d, Gen)
    IN IF R = INF THEN <<>> ELSE BN_bn2binpad(R[1], FieldLen)

\* Mutant: the x-coordinate is returned without its leading zero bytes.
EVP_PKEY_derive_unpadded(d, Q) ==
    LET R == EC_POINT_mul(d, Q)
    IN IF R = INF THEN <<>> ELSE BN_bn2bin(R[1])

\* Mutant: the derivation fails for the scalar 1 (the product is the peer's
\* own point), so an error tells the scalars apart.
EVP_PKEY_derive_failsOnUnit(d, Q) ==
    LET R == EC_POINT_mul(d, Q)
    IN IF R = INF \/ d = 1 THEN <<>> ELSE BN_bn2binpad(R[1], FieldLen)

\* EVP_PKEY_derive for ECDH: the x-coordinate of d*Q as a big-endian string
\* of the field's byte length; <<>> when the product is the point at infinity.
EVP_PKEY_derive(d, Q) ==
    LET R == EC_POINT_mul(d, Q)
    IN IF R = INF THEN <<>> ELSE BN_bn2binpad(R[1], FieldLen)

\* Mutant: the length test is missing.
InvalidKeyLen_never(keyLen) == FALSE

\* keyLen != 33 && keyLen != 65
InvalidKeyLen(keyLen) == keyLen # CompressedLen /\ keyLen # UncompressedLen

\* Mutant: the test for a missing key pair never fires.
NoKeyPair_never(pk) == FALSE

\* !this->pkey
NoKeyPair(pk) == pk.null

\* HybridEcdh::computeSecretRaw.
computeSecretRaw(pk, otherPublicKey, fault) ==
    IF NoKeyPair(pk) THEN Throw(Msg("No key pair available"), <<>>, pk)
    ELSE IF InvalidKeyLen(Len(otherPublicKey))
    THEN Throw(Msg(ERR_INVALID_PUBLIC_KEY), <<"clearOpenSSLErrors">>, pk)
    ELSE
    LET dec == EC_POINT_oct2point(otherPublicKey)
        peer == <<dec.pt>>
        secret == EVP_PKEY_derive(pk.priv, dec.pt)
        t1 == <<"clearOpenSSLErrors", "EC_KEY_new_by_curve_name">>
        t2 == t1 \o <<"EC_KEY_get0_group", "EC_POINT_new">>
        t3 == t2 \o <<"EC_POINT_oct2point">>
        t4 == t3 \o <<"EC_KEY_set_public_key">>
        t5 == t4 \o <<"EC_POINT_free(peerPoint)", "EVP_PKEY_new">>
        t6 == t5 \o <<"EVP_PKEY_set1_EC_KEY">>
        t7 == t6 \o <<"EC_KEY_free(peerEc)", "EVP_PKEY_CTX_new">>
        t8 == t7 \o <<"EVP_PKEY_derive_init">>
        t9 == t8 \o <<"EVP_PKEY_derive_set_peer">>
        t10 == t9 \o <<"EVP_PKEY_derive(NULL)">>
        t11 == t10 \o <<"new uint8_t[]", "EVP_PKEY_derive">>
        freePtEc == <<"EC_POINT_free(peerPoint)", "EC_KEY_free(peerEc)">>
        freeCtxPeer == <<"EVP_PKEY_CTX_free(ctx)", "EVP_PKEY_free(peerKey)">>
    IN IF fault = "EC_KEY_new_by_curve_name"
       THEN Fail(MsgSSL("Failed to create EC_KEY: "), t1, pk)
       ELSE IF fault = "EC_POINT_new"
       THEN Fail(MsgSSL("Failed to create EC_POINT: "), t2 \o <<"EC_KEY_free(peerEc)">>, pk)
       ELSE IF fault = "EC_POINT_oct2point"
       THEN Fail(Msg(ERR_INVALID_PUBLIC_KEY), t3 \o freePtEc, pk)
       ELSE IF ~dec.ok
       THEN Throw(Msg(ERR_INVALID_PUBLIC_KEY), t3 \o freePtEc, pk)
       ELSE IF fault = "EC_KEY_set_public_key"
       THEN [Fail(MsgSSL("Failed to set peer public key: "), t4 \o freePtEc, pk)
             EXCEPT !.peer = peer]
       ELSE IF fault = "EVP_PKEY_new"
       THEN [Fail(MsgSSL("Failed to create peer EVP_PKEY: "),
                  t5 \o <<"EC_KEY_free(peerEc)">>, pk) EXCEPT !.peer = peer]
       ELSE IF fault = "EVP_PKEY_set1_EC_KEY"
       THEN [Fail(MsgSSL("Failed to set peer EC_KEY: "),
                  t6 \o <<"EVP_PKEY_free(peerKey)", "EC_KEY_free(peerEc)">>, pk)
             EXCEPT !.peer = peer]
       ELSE IF fault = "EVP_PKEY_CTX_new"
       THEN [Fail(MsgSSL("Failed to create derive context: "),
                  t7 \o <<"EVP_PKEY_free(peerKey)">>, pk) EXCEPT !.peer = peer]
       ELSE IF fault = "EVP_PKEY_derive_init"
       THEN [Fail(MsgSSL("Failed to init derive: "), t8 \o freeCtxPeer, pk)
             EXCEPT !.peer = peer]
       ELSE IF fault = "EVP_PKEY_derive_set_peer"
       THEN [Fail(Msg(ERR_INVALID_PUBLIC_KEY), t9 \o freeCtxPeer, pk) EXCEPT !.peer = peer]
       ELSE IF ~EVP_PKEY_public_check(dec.pt)
       THEN [Throw(Msg(ERR_INVALID_PUBLIC_KEY), t9 \o freeCtxPeer, pk) EXCEPT !.peer = peer]
       ELSE IF fault = "EVP_PKEY_derive_len"
       THEN [Fail(MsgSSL("Failed to get secret length: "), t10 \o freeCtxPeer, pk)
             EXCEPT !.peer = peer]
       ELSE IF fault = "EVP_PKEY_derive" \/ secret = <<>>
       THEN [Fail(MsgSSL("Failed to derive secret: "),
                  t11 \o <<"delete[] secret">> \o freeCtxPeer, pk) EXCEPT !.peer = peer]
       ELSE [Return(secret, t11 \o freeCtxPeer, pk) EXCEPT !.peer = peer]

(***************************************************************************)
(* The ECDH class (ecdh.ts) over the native object.                        *)
(***************************************************************************)
NoCode == ""

\* No ECDH instance (and no native object).
NoCurve == ""

\* String.prototype.includes on a message, at the granularity of its parts.
Includes(msg, text) == \E k \in 1..Len(msg) : msg[k] = text

\* Mutant: only 'uncompressed' selects the uncompressed form.
formatFlag_unlessUncompressed(format) == IF format = "uncompressed" THEN 1 ELSE 0

\* ECDH.getPublicKey: 'compressed' is flag 0, everything else flag 1.
formatFlag(format) == IF format = "compressed" THEN 0 ELSE 1

\* What the caller of an ECDH method sees: the native result, and for a
\* throw the `code` property of the error object.
WithCode(r, code) ==
    [ok |-> r.ok, internal |-> r.internal, err |-> r.err, code |-> code,
     out |-> r.out, trace |-> r.trace, peer |-> r.peer, pkey |-> r.pkey,
     curve |-> NoCurve]

\* Mutant: a failed derivation drops the instance's key.
computeSecret_dropsKeyOnError(pk, otherPublicKey, fault) ==
    LET r == computeSecretRaw(pk, otherPublicKey, fault)
    IN IF ~r.ok /\ Includes(r.err, ERR_INVALID_PUBLIC_KEY)
       THEN WithCode([r EXCEPT !.err = <<"ERR_CRYPTO_ECDH_INVALID_PUBLIC_KEY: Invalid EC public key">>,
                               !.pkey = NULL],
                     ERR_INVALID_PUBLIC_KEY)
       ELSE WithCode(r, NoCode)

\* ECDH.computeSecret: a native message that includes
\* ERR_CRYPTO_ECDH_INVALID_PUBLIC_KEY is re-thrown as an error with that
\* code; any other error is re-thrown as it is.
computeSecret(pk, otherPublicKey, fault) ==
    LET r == computeSecretRaw(pk, otherPublicKey, fault)
    IN IF ~r.ok /\ Includes(r.err, ERR_INVALID_PUBLIC_KEY)
       THEN WithCode([r EXCEPT !.err = <<"ERR_CRYPTO_ECDH_INVALID_PUBLIC_KEY: Invalid EC public key">>],
                     ERR_INVALID_PUBLIC_KEY)
       ELSE WithCode(r, NoCode)

\* ECDH.getPublicKey, ECDH.getPrivateKey, ECDH.setPrivateKey (raw bytes in
\* and out).
getPublicKey(pk, format, fault) == WithCode(getPublicKeyRaw(pk, formatFlag(format), fault), NoCode)

getPrivateKey(pk, fault) == WithCode(getPrivateKeyRaw(pk, fault), NoCode)

\* Mutant: a key is installed only in an instance that holds none.
setPrivateKey_onlyWhenEmpty(pk, privateKey, fault) ==
    IF pk.null THEN WithCode(setPrivateKeyRaw(pk, privateKey, fault), NoCode)
    ELSE WithCode(Return(<<>>, <<>>, pk), NoCode)

setPrivateKey(pk, privateKey, fault) == WithCode(setPrivateKeyRaw(pk, privateKey, fault), NoCode)

\* ECDH.generateKeys: native generateKeys, then getPublicKey on the new key.
ECDH_generateKeys(pk, d, format, fault) ==
    LET g == generateKeys(pk, d, fault)
        e == getPublicKeyRaw(g.pkey, formatFlag(format), fault)
    IN IF ~g.ok THEN WithCode(g, NoCode)
       ELSE WithCode([e EXCEPT !.trace = g.trace \o e.trace], NoCode)

(***************************************************************************)
(* Text encodings (ecdh.ts encodeOutput / decodeInput over Buffer).  A     *)
(* JavaScript string is the sequence of its UTF-16 code units; a value     *)
(* passed in or out is a Buffer ([string |-> FALSE]) or a string.  Of the  *)
(* encodings Buffer knows, 'hex' and 'latin1' are written out.             *)
(***************************************************************************)
\* An optional argument that is omitted.
undefined == "undefined"

\* Mutant: the digits above 9 are taken from the characters after '9'.
HexDigit_decimalOnly(v) == 48 + v

\* The character of a hex digit: '0'..'9', 'a'..'f'.
HexDigit(v) == IF v < 10 THEN 48 + v ELSE 87 + v

\* The value of a hex character ('0'..'9', 'a'..'f', 'A'..'F'), -1 if none.
HexDigitValue(c) ==
    IF c \in 48..57 THEN c - 48
    ELSE IF c \in 97..102 THEN c - 87
    ELSE IF c \in 65..70 THEN c - 55
    ELSE -1

\* buf.toString(encoding)
Buffer_toString(buf, encoding) ==
    IF encoding = "hex"
    THEN [k \in 1..(2 * Len(buf)) |->
             IF k % 2 = 1 THEN HexDigit(buf[(k + 1) \div 2] \div 16)
             ELSE HexDigit(buf[k \div 2] % 16)]
    ELSE [k \in 1..Len(buf) |-> buf[k]]

\* The number of leading well-formed pairs of hex characters.
RECURSIVE HexPairs(_)
HexPairs(str) ==
    IF Len(str) < 2 \/ HexDigitValue(str[1]) < 0 \/ HexDigitValue(str[2]) < 0 THEN 0
    ELSE 1 + HexPairs(SubSeq(str, 3, Len(str)))

\* Buffer.from(str, encoding): hex decoding stops at the first pair that is
\* not two hex characters; latin1 keeps the low byte of each code unit.
Buffer_from(str, encoding) ==
    IF encoding = "hex"
    THEN [k \in 1..HexPairs(str) |->
             16 * HexDigitValue(str[2 * k - 1]) + HexDigitValue(str[2 * k])]
    ELSE [k \in 1..Len(str) |-> str[k] % 256]

\* ECDH.encodeOutput: no encoding returns the Buffer; 'binary' is latin1.
encodeOutput(data, encoding) ==
    IF encoding = undefined THEN [string |-> FALSE, data |-> data]
    ELSE LET actualEncoding == IF encoding = "binary" THEN "latin1" ELSE encoding
         IN [string |-> TRUE, data |-> Buffer_toString(data, actualEncoding)]

\* ECDH.decodeInput: a string is decoded ('binary' as latin1), a Buffer is
\* taken as its bytes.
decodeInput(data, encoding) ==
    IF data.string
    THEN LET enc == IF encoding = "binary" THEN "latin1" ELSE encoding
         IN Buffer_from(data.data, enc)
    ELSE data.data

\* HybridEcdh::setCurve: [ok, err, curve].
setCurve(curveParam) ==
    IF curveParam # "secp256k1"
    THEN [ok |-> FALSE, curve |-> NoCurve,
          err |-> <<"Unsupported curve: ", curveParam, ". Only secp256k1 is supported.">>]
    ELSE [ok |-> TRUE, curve |-> curveParam, err |-> <<>>]

SUPPORTED_CURVES == {"secp256k1"}

\* Mutant: the list of supported curves is not consulted.
SupportedCurve_any(curveName) == TRUE

\* SUPPORTED_CURVES.includes(curveName)
SupportedCurve(curveName) == curveName \in SUPPORTED_CURVES

ERR_INVALID_CURVE == "ERR_CRYPTO_INVALID_CURVE"

\* createECDH, with the constructor of ECDH: the result carries the curve of
\* the instance handed to the caller (NoCurve when none is).
createECDH(curveName) ==
    IF ~SupportedCurve(curveName)
    THEN [WithCode(Throw(<<"Unsupported curve: ", curveName>>, <<>>, NULL), ERR_INVALID_CURVE)
            EXCEPT !.curve = NoCurve]
    ELSE LET tr == <<"new ECDH", "NitroModules.createHybridObject", "setCurve">>
             c == setCurve(curveName)
         IN IF ~c.ok
            THEN [WithCode(Throw(c.err, tr, NULL), NoCode) EXCEPT !.curve = NoCurve]
            ELSE [WithCode(Return(<<>>, tr, NULL), NoCode) EXCEPT !.curve = c.curve]

(***************************************************************************)
(* Inputs offered to the methods.                                          *)
(***************************************************************************)
Scalars == 1..(OrderN - 1)

\* The n-byte big-endian string of value v < 65536 (how the inputs are
\* written down).
BytesOf(v, n) == [k \in 1..n |-> IF k = n THEN v % 256
                                  ELSE IF k = n - 1 THEN (v \div 256) % 256 ELSE 0]

CurvePoints == {EC_POINT_mul(d, Gen) : d \in Scalars}

\* The format argument: the two documented values, the argument omitted, and
\* other strings.
Formats == {"compressed", "uncompressed", undefined, "COMPRESSED"}

\* Curve names handed to createECDH.
CurveNames == {"secp256k1", "invalid-curve", "prime256v1", "SECP256K1", ""}

\* Private keys: every value 0..MaxScalarInput as 32 bytes, a value whose
\* low byte alone is in range, and strings one byte short and one too long.
PrivateKeyInputs ==
    {BytesOf(v, PrivLen) : v \in 0..MaxScalarInput}
        \cup {BytesOf(256 + 3, PrivLen),
              BytesOf(3, PrivLen - 1), BytesOf(3, PrivLen + 1), <<>>, <<3>>}

Enc65(lead, x, y) == <<lead>> \o BytesOf(x, FieldLen) \o BytesOf(y, FieldLen)
Enc33(lead, x) == <<lead>> \o BytesOf(x, FieldLen)

\* Remote public keys: 65-byte strings 0x04 || x || y over the coordinate
\* grid, 33-byte strings 0x02/0x03 || x, the same shapes under other leading
\* bytes, coordinates with a high byte set, and strings of other lengths.
RemoteKeyInputs ==
    {Enc65(4, x, y) : x \in 0..MaxCoord, y \in 0..MaxCoord}
        \cup {Enc33(lead, x) : lead \in {2, 3}, x \in 0..MaxCoord}
        \cup {Enc65(lead, pt[1], pt[2]) : lead \in {6, 7}, pt \in CurvePoints}
        \cup {Enc65(lead, Gen[1], Gen[2]) : lead \in {0, 2, 3, 5}}
        \cup {Enc33(lead, Gen[1]) : lead \in {0, 4, 5, 6}}
        \cup {Enc65(4, 256 + Gen[1], Gen[2]), Enc33(3, 256 + Gen[1])}
        \cup {<<>>, <<0>>, <<4>>, Zeros(PrivLen), [k \in 1..32 |-> 4], SubSeq(Enc65(4, Gen[1], Gen[2]), 1, 64),
              Enc65(4, Gen[1], Gen[2]) \o <<0>>, Enc33(3, Gen[1]) \o <<0>>}

\* Under a failing library call the methods are run on a few arguments of
\* each kind.
FaultPrivateKeyInputs == {BytesOf(2, PrivLen), BytesOf(0, PrivLen)}

FaultRemoteKeyInputs ==
    {Enc65(4, Gen[1], Gen[2]), Enc33(3, Gen[1]), Enc65(4, 0, 0)}

PrivateKeysUnder(fault) ==
    IF fault = "none" THEN PrivateKeyInputs ELSE FaultPrivateKeyInputs

RemoteKeysUnder(fault) ==
    IF fault = "none" THEN RemoteKeyInputs ELSE FaultRemoteKeyInputs

(***************************************************************************)
(* State.  pkey[i] is instance i's key handle.  last is the call whose     *)
(* result the caller holds (Idle when none).  everKeyed[i] records whether *)
(* a call ever left a key pair installed in instance i, and                *)
(* lastInstalled[i] the key pair installed by the most recent generateKeys *)
(* or setPrivateKey whose native handler returned normally (NULL if none). *)
(* last.wasKeyed tells whether the instance held a key pair when the call  *)
(* began.                                                                  *)
(***************************************************************************)
Idle ==
    [inst |-> "", op |-> "idle", arg |-> <<>>, format |-> "", ok |-> TRUE,
     internal |-> FALSE, err |-> <<>>, code |-> NoCode, out |-> <<>>, trace |-> <<>>,
     peer |-> <<>>, curveName |-> "", wasKeyed |-> FALSE]

Call(i, op, arg, format, r) ==
    [inst |-> i, op |-> op, arg |-> arg, format |-> format, ok |-> r.ok,
     internal |-> r.internal, err |-> r.err, code |-> r.code, out |-> r.out,
     trace |-> r.trace, peer |-> r.peer, curveName |-> "",
     wasKeyed |-> ~pkey[i].null]

Peer(i) == CHOOSE j \in Instances : j # i

\* The encodings of instance i's public key that a caller can obtain.
Exports(i) ==
    IF pkey[i].null THEN {}
    ELSE {getPublicKeyRaw(pkey[i], formatFlag(f), "none").out : f \in Formats}

Created(i) == curve[i] # NoCurve

\* The parts of the state that only the finer-grained specifications below
\* move: the text conversion in progress (SpecEncoding), the draw loop of
\* EC_KEY_generate_key (SpecGenerate), and the replacement in flight
\* (SpecInterleaved).
aux == <<codec, rng, writer>>

NoCodec ==
    [stage |-> "idle", op |-> "", d |-> 0, format |-> "", encoding |-> "", raw |-> <<>>,
     out |-> [string |-> FALSE, data |-> <<>>], back |-> <<>>, ok |-> TRUE, priv |-> 0]

NoDraw == [pc |-> "idle", rejected |-> -1, scalar |-> 0]

NoWriter ==
    [active |-> FALSE, inst |-> "", op |-> "", old |-> NULL, new |-> NULL, ok |-> FALSE,
     outcome |-> "none"]

Init ==
    /\ curve = [i \in Instances |-> NoCurve]
    /\ pkey = [i \in Instances |-> NULL]
    /\ last = Idle
    /\ everKeyed = [i \in Instances |-> FALSE]
    /\ lastInstalled = [i \in Instances |-> NULL]
    /\ codec = NoCodec
    /\ rng = [i \in Instances |-> NoDraw]
    /\ writer = NoWriter

\* i = createECDH(curveName), for a variable i that holds no instance.
CreateECDH(i) ==
    /\ last = Idle
    /\ UNCHANGED aux
    /\ ~Created(i)
    /\ \E curveName \in CurveNames :
         LET r == createECDH(curveName)
         IN /\ curve' = [curve EXCEPT ![i] = r.curve]
            /\ last' = [Call(i, "createECDH", <<>>, "", r) EXCEPT !.curveName = curveName]
            /\ UNCHANGED <<pkey, everKeyed, lastInstalled>>

\* Mutant: the key handle is shared by all instances (a static member), so
\* destroying one instance releases the handle of every instance.
Destroy_sharedHandle(i) ==
    /\ last = Idle
    /\ UNCHANGED aux
    /\ Created(i)
    /\ LET r == WithCode(destructor(pkey[i]), NoCode)
       IN /\ last' = Call(i, "destroy", <<>>, "", r)
          /\ pkey' = [j \in Instances |-> r.pkey]
    /\ curve' = [curve EXCEPT ![i] = NoCurve]
    /\ everKeyed' = [everKeyed EXCEPT ![i] = FALSE]
    /\ lastInstalled' = [lastInstalled EXCEPT ![i] = NULL]

\* The instance held in i is dropped and its native object destroyed.
Destroy(i) ==
    /\ last = Idle
    /\ UNCHANGED aux
    /\ Created(i)
    /\ LET r == WithCode(destructor(pkey[i]), NoCode)
       IN /\ last' = Call(i, "destroy", <<>>, "", r)
          /\ pkey' = [pkey EXCEPT ![i] = r.pkey]
    /\ curve' = [curve EXCEPT ![i] = NoCurve]
    /\ everKeyed' = [everKeyed EXCEPT ![i] = FALSE]
    /\ lastInstalled' = [lastInstalled EXCEPT ![i] = NULL]

\* ecdh.generateKeys(undefined, format)
GenerateKeys(i) ==
    /\ last = Idle
    /\ UNCHANGED aux
    /\ Created(i)
    /\ \E fault \in FaultsOf("generateKeys") \cup FaultsOf("getPublicKey") :
       \E format \in Formats, d \in Scalars :
         LET r == ECDH_generateKeys(pkey[i], d, format, fault)
         IN /\ pkey' = [pkey EXCEPT ![i] = r.pkey]
            /\ last' = Call(i, "generateKeys", <<>>, format, r)
            /\ everKeyed' = [everKeyed EXCEPT ![i] = @ \/ ~r.pkey.null]
            /\ lastInstalled' = [lastInstalled EXCEPT
                                    ![i] = IF r.pkey.null THEN @ ELSE r.pkey]
            /\ UNCHANGED curve

\* ecdh.setPrivateKey(bytes)
SetPrivateKey(i) ==
    /\ last = Idle
    /\ UNCHANGED aux
    /\ Created(i)
    /\ \E fault \in FaultsOf("setPrivateKey") :
       \E privateKey \in PrivateKeysUnder(fault) :
         LET r == setPrivateKey(pkey[i], privateKey, fault)
         IN /\ pkey' = [pkey EXCEPT ![i] = r.pkey]
            /\ last' = Call(i, "setPrivateKey", privateKey, "", r)
            /\ everKeyed' = [everKeyed EXCEPT ![i] = @ \/ ~r.pkey.null]
            /\ lastInstalled' = [lastInstalled EXCEPT
                                    ![i] = IF r.ok THEN r.pkey ELSE @]
            /\ UNCHANGED curve

\* ecdh.getPublicKey(undefined, format)
GetPublicKey(i) ==
    /\ last = Idle
    /\ UNCHANGED aux
    /\ Created(i)
    /\ \E fault \in FaultsOf("getPublicKey"), format \in Formats :
         LET r == getPublicKey(pkey[i], format, fault)
         IN /\ last' = Call(i, "getPublicKey", <<>>, format, r)
            /\ pkey' = [pkey EXCEPT ![i] = r.pkey]
            /\ UNCHANGED <<curve, everKeyed, lastInstalled>>

\* ecdh.getPrivateKey()
GetPrivateKey(i) ==
    /\ last = Idle
    /\ UNCHANGED aux
    /\ Created(i)
    /\ \E fault \in FaultsOf("getPrivateKey") :
         LET r == getPrivateKey(pkey[i], fault)
         IN /\ last' = Call(i, "getPrivateKey", <<>>, "", r)
            /\ pkey' = [pkey EXCEPT ![i] = r.pkey]
            /\ UNCHANGED <<curve, everKeyed, lastInstalled>>

\* ecdh.computeSecret(bytes)
ComputeSecret(i) ==
    /\ last = Idle
    /\ UNCHANGED aux
    /\ Created(i)
    /\ \E fault \in FaultsOf("computeSecret") :
       \E otherPublicKey \in RemoteKeysUnder(fault) \cup Exports(Peer(i)) :
         LET r == computeSecret(pkey[i], otherPublicKey, fault)
         IN /\ last' = Call(i, "computeSecret", otherPublicKey, "", r)
            /\ pkey' = [pkey EXCEPT ![i] = r.pkey]
            /\ UNCHANGED <<curve, everKeyed, lastInstalled>>

\* The caller is done with the result of the last call: the returned
\* NativeArrayBuffer is released (its deleter frees the bytes), or the
\* exception has been handled.
ReleaseResult ==
    /\ last # Idle
    /\ UNCHANGED aux
    /\ last' = Idle
    /\ UNCHANGED <<curve, pkey, everKeyed, lastInstalled>>

Next ==
    \/ \E i \in Instances : CreateECDH(i)
    \/ \E i \in Instances : GenerateKeys(i)
    \/ \E i \in Instances : SetPrivateKey(i)
    \/ \E i \in Instances : GetPublicKey(i)
    \/ \E i \in Instances : GetPrivateKey(i)
    \/ \E i \in Instances : ComputeSecret(i)
    \/ \E i \in Instances : Destroy(i)
    \/ ReleaseResult

Spec == Init /\ [][Next]_vars

(***************************************************************************)
(* SpecEncoding: the text encodings of the exports.  A key pair of scalar  *)
(* d is exported by one of the three exporting methods with an encoding    *)
(* argument; an exported private key is imported back with the same        *)
(* encoding into a fresh instance.  The keys of the small curve have small *)
(* bytes only, so encodeOutput and decodeInput are also run over byte      *)
(* strings that use the whole range of a byte.                             *)
(***************************************************************************)
Encodings == {undefined, "hex", "latin1", "binary"}

EncodingProbes ==
    {<<>>, <<0>>, <<255>>, <<0, 255, 16, 171, 9, 10, 160, 127, 128>>,
     [k \in 1..PrivLen |-> (k * 37) % 256], [k \in 1..PrivLen |-> 255 - k]}

encFrame == UNCHANGED <<curve, pkey, last, everKeyed, lastInstalled, rng, writer>>

\* createECDH('secp256k1').generateKeys(encoding, format), and
\* getPublicKey(encoding, format) / getPrivateKey(encoding) on an instance
\* holding the pair of scalar d.
ExportEncoded ==
    /\ codec.stage = "idle"
    /\ \E op \in {"generateKeys", "getPublicKey", "getPrivateKey"}, d \in Scalars,
          format \in Formats, encoding \in Encodings :
         LET pk == EC_KEY_generate_key(d)
             r == CASE op = "generateKeys" -> ECDH_generateKeys(NULL, d, format, "none")
                    [] op = "getPublicKey" -> getPublicKey(pk, format, "none")
                    [] op = "getPrivateKey" -> getPrivateKey(pk, "none")
         IN codec' = [stage |-> "exported", op |-> op, d |-> d,
                      format |-> IF op = "getPrivateKey" THEN "" ELSE format,
                      encoding |-> encoding, raw |-> r.out,
                      out |-> encodeOutput(r.out, encoding),
                      back |-> <<>>, ok |-> r.ok, priv |-> 0]
    /\ encFrame

\* setPrivateKey(out, encoding) on a fresh instance, out being what
\* getPrivateKey(encoding) returned.
ImportEncoded ==
    /\ codec.stage = "exported"
    /\ codec.op = "getPrivateKey"
    /\ LET keyBuffer == decodeInput(codec.out, codec.encoding)
           r == setPrivateKeyRaw(NULL, keyBuffer, "none")
       IN codec' = [codec EXCEPT !.stage = "imported", !.back = keyBuffer,
                                 !.ok = r.ok, !.priv = r.pkey.priv]
    /\ encFrame

\* encodeOutput, then decodeInput, over an arbitrary byte string.
EncodeProbe ==
    /\ codec.stage = "idle"
    /\ \E data \in EncodingProbes, encoding \in Encodings :
         LET out == encodeOutput(data, encoding)
         IN codec' = [stage |-> "probed", op |-> "", d |-> 0, format |-> "",
                      encoding |-> encoding, raw |-> data, out |-> out,
                      back |-> decodeInput(out, encoding), ok |-> TRUE, priv |-> 0]
    /\ encFrame

ResetCodec ==
    /\ codec.stage # "idle"
    /\ codec' = NoCodec
    /\ encFrame

NextEncoding == ExportEncoded \/ ImportEncoded \/ EncodeProbe \/ ResetCodec

SpecEncoding == Init /\ [][NextEncoding]_vars

(***************************************************************************)
(* SpecGenerate: generateKeys with the draw loop of EC_KEY_generate_key    *)
(* spelled out.  The call clears the error queue, frees a held key and     *)
(* creates the EC_KEY (BeginGenerate); EC_KEY_generate_key then draws      *)
(* candidates from the random source, drawing again after a candidate      *)
(* that is 0 or not below the order (Redraw), until a candidate in         *)
(* [1, n-1] is drawn and the pair is installed (Accept) or the library     *)
(* reports a failure and the call throws (GenerateFails).  Calls are       *)
(* synchronous: no other call runs while one is drawing.                   *)
(***************************************************************************)
\* What the random source can yield.
Draws == 0..MaxScalarInput

\* Mutant: a candidate of 0 is not drawn again.
RandInRange_allowsZero(c) == c < OrderN

\* The candidates EC_KEY_generate_key keeps: 0 < c < order.
RandInRange(c) == c # 0 /\ c < OrderN

NoDrawing == \A j \in Instances : rng[j].pc = "idle"

genFrame == UNCHANGED <<codec, writer>>

BeginGenerate(i) ==
    /\ last = Idle
    /\ Created(i)
    /\ NoDrawing
    /\ rng' = [rng EXCEPT ![i] = [pc |-> "drawing", rejected |-> -1, scalar |-> 0]]
    /\ pkey' = [pkey EXCEPT ![i] = FreeHandle(pkey[i])]
    /\ UNCHANGED <<curve, last, everKeyed, lastInstalled>>
    /\ genFrame

Redraw(i) ==
    /\ rng[i].pc = "drawing"
    /\ \E c \in Draws :
         /\ ~RandInRange(c)
         /\ rng' = [rng EXCEPT ![i].rejected = c]
    /\ UNCHANGED <<curve, pkey, last, everKeyed, lastInstalled>>
    /\ genFrame

\* The loop ends with a candidate in range; EC_KEY_generate_key computes the
\* public point and returns.
Accept(i) ==
    /\ rng[i].pc = "drawing"
    /\ \E c \in Draws :
         /\ RandInRange(c)
         /\ rng' = [rng EXCEPT ![i].pc = "accepted", ![i].scalar = c]
    /\ UNCHANGED <<curve, pkey, last, everKeyed, lastInstalled>>
    /\ genFrame

\* The rest of generateKeys and of ECDH.generateKeys: the EVP_PKEY is
\* created, given the EC_KEY and installed, and the public key exported.
FinishGenerate(i) ==
    /\ rng[i].pc = "accepted"
    /\ LET r == ECDH_generateKeys(pkey[i], rng[i].scalar, undefined, "none")
       IN /\ pkey' = [pkey EXCEPT ![i] = r.pkey]
          /\ last' = Call(i, "generateKeys", <<>>, undefined, r)
          /\ everKeyed' = [everKeyed EXCEPT ![i] = @ \/ ~r.pkey.null]
          /\ lastInstalled' = [lastInstalled EXCEPT
                                  ![i] = IF r.pkey.null THEN @ ELSE r.pkey]
    /\ rng' = [rng EXCEPT ![i].pc = "idle"]
    /\ UNCHANGED curve
    /\ genFrame

\* EC_KEY_generate_key returns 0 and generateKeys throws.
GenerateFails(i) ==
    /\ rng[i].pc = "drawing"
    /\ LET r == ECDH_generateKeys(pkey[i], 1, undefined, "EC_KEY_generate_key")
       IN /\ pkey' = [pkey EXCEPT ![i] = r.pkey]
          /\ last' = Call(i, "generateKeys", <<>>, undefined, r)
    /\ rng' = [rng EXCEPT ![i].pc = "idle"]
    /\ UNCHANGED <<curve, everKeyed, lastInstalled>>
    /\ genFrame

NextGenerate ==
    \/ \E i \in Instances : NoDrawing /\ CreateECDH(i)
    \/ \E i \in Instances : BeginGenerate(i)
    \/ \E i \in Instances : Redraw(i)
    \/ \E i \in Instances : Accept(i)
    \/ \E i \in Instances : FinishGenerate(i)
    \/ \E i \in Instances : GenerateFails(i)
    \/ \E i \in Instances : NoDrawing /\ GetPrivateKey(i)
    \/ NoDrawing /\ ReleaseResult

\* A call that has its scalar runs to its end.
Completes(i) == rng[i].pc = "accepted" /\ rng' = [rng EXCEPT ![i].pc = "idle"]

\* Fairness: the random source eventually yields a value in [1, n-1], and
\* the thread running the synchronous call keeps running.
SpecGenerate ==
    /\ Init
    /\ [][NextGenerate]_vars
    /\ \A i \in Instances : WF_vars(Accept(i)) /\ WF_rng(Completes(i))

(***************************************************************************)
(* SpecInterleaved: one instance shared by two threads that do not         *)
(* synchronize.  A replacement (generateKeys or setPrivateKeyRaw past its  *)
(* size test) takes two steps: BeginReplace clears the error queue, frees  *)
(* the held key and nulls the handle; FinishReplace runs the rest of the   *)
(* handler and, when it succeeds, stores the new handle.  Calls of the     *)
(* other thread run before, between or after the two steps; a call that    *)
(* follows BeginReplace immediately by FinishReplace is a serialized one.  *)
(* A reader that loaded the handle before the free and uses it after is    *)
(* reading a freed key (undefined behaviour): StaleRead gives the outcome  *)
(* in which the freed memory still holds the old pair.  writer.outcome is  *)
(* how the last completed replacement ended.                               *)
(***************************************************************************)
Shared == {"alice"}

intFrame == UNCHANGED <<codec, rng>>

BeginReplace(i) ==
    /\ last = Idle
    /\ Created(i)
    /\ ~writer.active
    /\ \E op \in {"generateKeys", "setPrivateKey"}, d \in Scalars,
          privateKey \in {k \in PrivateKeyInputs : ~InvalidPrivateKeySize(Len(k))},
          fault \in {"none", "EVP_PKEY_new"} :
         LET r == IF op = "generateKeys" THEN generateKeys(pkey[i], d, fault)
                  ELSE setPrivateKeyRaw(pkey[i], privateKey, fault)
         IN writer' = [active |-> TRUE, inst |-> i, op |-> op, old |-> pkey[i],
                       new |-> r.pkey, ok |-> r.ok, outcome |-> writer.outcome]
    /\ pkey' = [pkey EXCEPT ![i] = FreeHandle(pkey[i])]
    /\ UNCHANGED <<curve, last, everKeyed, lastInstalled>>
    /\ intFrame

\* Mutant: the handler returns without storing the new handle.
FinishReplace_noInstall(i) ==
    /\ last = Idle
    /\ writer.active
    /\ writer.inst = i
    /\ writer' = [writer EXCEPT !.active = FALSE,
                                !.outcome = IF writer.ok THEN "ok" ELSE "failed"]
    /\ UNCHANGED <<curve, pkey, last, everKeyed, lastInstalled>>
    /\ intFrame

FinishReplace(i) ==
    /\ last = Idle
    /\ writer.active
    /\ writer.inst = i
    /\ pkey' = [pkey EXCEPT ![i] = writer.new]
    /\ everKeyed' = [everKeyed EXCEPT ![i] = @ \/ ~writer.new.null]
    /\ lastInstalled' = [lastInstalled EXCEPT
                            ![i] = IF writer.new.null THEN @ ELSE writer.new]
    /\ writer' = [writer EXCEPT !.active = FALSE,
                                !.outcome = IF writer.ok THEN "ok" ELSE "failed"]
    /\ UNCHANGED <<curve, last>>
    /\ intFrame

StaleRead(i) ==
    /\ last = Idle
    /\ writer.active
    /\ writer.inst = i
    /\ ~writer.old.null
    /\ \E op \in {"getPublicKey", "getPrivateKey"} :
         LET r == IF op = "getPublicKey" THEN getPublicKey(writer.old, undefined, "none")
                  ELSE getPrivateKey(writer.old, "none")
         IN last' = [Call(i, op, <<>>, IF op = "getPublicKey" THEN undefined ELSE "", r)
                       EXCEPT !.wasKeyed = TRUE]
    /\ UNCHANGED <<curve, pkey, everKeyed, lastInstalled, writer>>
    /\ intFrame

NextInterleaved ==
    \/ \E i \in Shared : CreateECDH(i)
    \/ \E i \in Shared : BeginReplace(i)
    \/ \E i \in Shared : FinishReplace(i)
    \/ \E i \in Shared : GetPublicKey(i)
    \/ \E i \in Shared : GetPrivateKey(i)
    \/ \E i \in Shared : ComputeSecret(i)
    \/ \E i \in Shared : StaleRead(i)
    \/ ReleaseResult

SpecInterleaved == Init /\ [][NextInterleaved]_vars

(***************************************************************************)
(* Vocabulary of the properties.                                           *)
(***************************************************************************)
Keyed(i) == ~pkey[i].null

\* The value of a big-endian byte string, most significant byte first.
RECURSIVE BigEndianFrom(_, _)
BigEndianFrom(bytes, acc) ==
    IF bytes = <<>> THEN acc ELSE BigEndianFrom(Tail(bytes), 256 * acc + Head(bytes))

BigEndian(bytes) == BigEndianFrom(bytes, 0)

\* The calls of the last method call, in order.
Called(name) == \E k \in 1..Len(last.trace) : last.trace[k] = name

CalledBefore(a, b) ==
    \A k \in 1..Len(last.trace) :
        last.trace[k] = b => \E m \in 1..(k - 1) : last.trace[m] = a

\* A pair of coordinates on the curve, decided from the curve equation.
OnCurve(x, y) ==
    /\ x \in 0..(FieldP - 1)
    /\ y \in 0..(FieldP - 1)
    /\ (y * y) % FieldP = (x * x * x + CurveB) % FieldP

\* The coordinates a 65-byte string carries, and the x a 33-byte one does.
XOf(bytes) == BigEndian(SubSeq(bytes, 2, 1 + FieldLen))
YOf(bytes) == BigEndian(SubSeq(bytes, 2 + FieldLen, 1 + 2 * FieldLen))

\* x is the abscissa of a curve point.
HasRoot(x) == \E y \in 0..(FieldP - 1) : OnCurve(x, y)

ZeroPoint65 == <<4>> \o [k \in 1..64 |-> 0]

IsComputeSecret(i) == last.op = "computeSecret" /\ last.inst = i

(***************************************************************************)
(* C1  ECDH commutativity.  When an instance holding a key pair has just   *)
(* computed a secret from its peer's exported public key (either form) and *)
(* no library call failed, the call succeeded with exactly 32 bytes, and   *)
(* the peer's computeSecret on any export of this instance's public key    *)
(* succeeds with the very same bytes.                                      *)
(***************************************************************************)
C1_Commutativity ==
    \A i \in Instances :
        (IsComputeSecret(i) /\ Keyed(i) /\ last.arg \in Exports(Peer(i)) /\ ~last.internal)
            => /\ last.ok
               /\ Len(last.out) = 32
               /\ \A e \in Exports(i) :
                      LET r == computeSecret(pkey[Peer(i)], e, "none")
                      IN r.ok /\ r.out = last.out

C1_Witness ==
    \E i \in Instances :
        /\ IsComputeSecret(i) /\ last.ok
        /\ last.arg \in Exports(Peer(i))
        /\ pkey[i].priv # pkey[Peer(i)].priv
        /\ Len(last.out) = 32

(***************************************************************************)
(* C2  No derivation with an unvalidated point.  In computeSecret every    *)
(* step after EC_POINT_oct2point runs on a remote key of length 33 or 65   *)
(* that decoded to a point on the curve other than the point at infinity;  *)
(* the derive steps come only after decoding and after the peer check;     *)
(* and 0x04 followed by 64 zero bytes never yields a secret and, when no   *)
(* library call fails, is rejected on a keyed instance as an invalid       *)
(* public key.                                                             *)
(***************************************************************************)
C2_DeriveOnlyValidated ==
    last.op = "computeSecret" =>
        /\ (Called("EC_KEY_set_public_key") \/ Called("EVP_PKEY_derive_set_peer")
              \/ Called("EVP_PKEY_derive(NULL)") \/ Called("EVP_PKEY_derive"))
             => /\ Len(last.arg) \in {33, 65}
                /\ Len(last.peer) = 1
                /\ last.peer[1] # INF
                /\ OnCurve(last.peer[1][1], last.peer[1][2])
        /\ CalledBefore("EC_POINT_oct2point", "EVP_PKEY_derive")
        /\ CalledBefore("EVP_PKEY_derive_set_peer", "EVP_PKEY_derive")
        /\ CalledBefore("EC_POINT_oct2point", "EVP_PKEY_derive(NULL)")
        /\ last.arg = ZeroPoint65
             => /\ ~last.ok
                /\ ~Called("EVP_PKEY_derive")
                /\ (Keyed(last.inst) /\ ~last.internal) => last.code = ERR_INVALID_PUBLIC_KEY

C2_Witness ==
    /\ last.op = "computeSecret" /\ last.arg = ZeroPoint65 /\ Keyed(last.inst)
    /\ ~last.ok /\ last.code = ERR_INVALID_PUBLIC_KEY
    /\ Called("EC_POINT_oct2point") /\ ~Called("EVP_PKEY_derive")

(***************************************************************************)
(* C3  The public point is the generator times the private scalar.  In     *)
(* every reachable state an instance that holds a private scalar s holds   *)
(* the public point G*s; and an instance whose key was just set from its   *)
(* peer's exported private key exports the public key its peer exports.    *)
(***************************************************************************)
C3_PublicIsGeneratorMultiple ==
    /\ \A i \in Instances :
           (Keyed(i) /\ pkey[i].hasPriv)
               => pkey[i].hasPub /\ pkey[i].pub = EC_POINT_mul(pkey[i].priv, Gen)
    /\ \A i \in Instances :
           (/\ last.op = "setPrivateKey" /\ last.inst = i /\ last.ok
            /\ Keyed(Peer(i))
            /\ last.arg = getPrivateKey(pkey[Peer(i)], "none").out)
               => Exports(i) = Exports(Peer(i)) /\ Exports(i) # {}

C3_Witness ==
    \E i \in Instances :
        /\ last.op = "setPrivateKey" /\ last.inst = i /\ last.ok
        /\ Keyed(Peer(i))
        /\ last.arg = getPrivateKey(pkey[Peer(i)], "none").out
        /\ pkey[i].pub = EC_POINT_mul(pkey[i].priv, Gen)
        /\ pkey[i].priv > 1

(***************************************************************************)
(* C4  Range check of setPrivateKey.  A 32-byte input whose big-endian     *)
(* value is 0 or at least the group order is rejected with 'Private key    *)
(* out of range'; one whose value is in [1, n-1] is accepted and installed *)
(* (no library call failing).                                              *)
(***************************************************************************)
C4_PrivateKeyRange ==
    (last.op = "setPrivateKey" /\ Len(last.arg) = 32 /\ ~last.internal)
        => LET v == BigEndian(last.arg)
           IN /\ (v = 0 \/ v >= OrderN)
                    => ~last.ok /\ last.err = <<"Private key out of range">>
              /\ (v >= 1 /\ v < OrderN)
                    => last.ok /\ Keyed(last.inst) /\ pkey[last.inst].priv = v

C4_Witness ==
    /\ last.op = "setPrivateKey" /\ Len(last.arg) = 32
    /\ BigEndian(last.arg) = OrderN
    /\ last.err = <<"Private key out of range">>

(***************************************************************************)
(* C5  A held private scalar is in range: 1 <= scalar < n in every         *)
(* reachable state of every instance that holds a key pair.                *)
(***************************************************************************)
C5_ScalarInRange ==
    \A i \in Instances :
        Keyed(i) => pkey[i].hasPriv /\ pkey[i].priv >= 1 /\ pkey[i].priv < OrderN

C5_Witness ==
    \E i \in Instances :
        /\ Keyed(i) /\ pkey[i].priv = OrderN - 1
        /\ Keyed(Peer(i)) /\ pkey[Peer(i)].priv = 1
        /\ last.op = "generateKeys" /\ last.ok

(***************************************************************************)
(* C6  Private-key round trip.  Right after setPrivateKey accepted 32      *)
(* bytes, getPrivateKey on that instance returns exactly those 32 bytes,   *)
(* leading zero bytes included.                                            *)
(***************************************************************************)
C6_PrivateKeyRoundTrip ==
    (last.op = "setPrivateKey" /\ last.ok)
        => LET g == getPrivateKey(pkey[last.inst], "none")
           IN g.ok /\ Len(g.out) = 32 /\ g.out = last.arg

C6_Witness ==
    /\ last.op = "setPrivateKey" /\ last.ok
    /\ last.arg[1] = 0 /\ last.arg[32] = 5
    /\ getPrivateKey(pkey[last.inst], "none").out = last.arg

(***************************************************************************)
(* C7  Empty or keyed, by history (the claim as it is worded): the reads   *)
(* getPublicKey, getPrivateKey and computeSecret fail with the no-key-pair *)
(* error on an instance in which no key pair was ever installed, and       *)
(* succeed, for valid arguments and with no library call failing, on an    *)
(* instance in which one was.                                              *)
(***************************************************************************)
Reads == {"getPublicKey", "getPrivateKey", "computeSecret"}

NoKeyPairErrors == {<<"No key pair generated">>, <<"No key pair available">>}

\* A well-formed encoding of a curve point in one of the two documented
\* forms.
ValidRemoteKey(bytes) ==
    \/ Len(bytes) = 65 /\ bytes[1] = 4 /\ OnCurve(XOf(bytes), YOf(bytes))
    \/ Len(bytes) = 33 /\ bytes[1] \in {2, 3} /\ HasRoot(XOf(bytes))

C7_ReadsSucceedOnceKeyed ==
    last.op \in Reads =>
        /\ ~everKeyed[last.inst] => ~last.ok /\ last.err \in NoKeyPairErrors
        /\ (/\ everKeyed[last.inst]
            /\ ~last.internal
            /\ last.op = "computeSecret" => ValidRemoteKey(last.arg))
               => last.ok

(***************************************************************************)
(* C8  Length check first.  On an instance holding a key pair,             *)
(* computeSecret rejects every remote key whose length is neither 33 nor   *)
(* 65 with the code ERR_CRYPTO_ECDH_INVALID_PUBLIC_KEY, having made no     *)
(* call that creates a curve object or runs curve arithmetic (the only     *)
(* call before the throw clears the OpenSSL error queue).                  *)
(***************************************************************************)
C8_LengthRejectedFirst ==
    (last.op = "computeSecret" /\ Keyed(last.inst) /\ Len(last.arg) \notin {33, 65})
        => /\ ~last.ok
           /\ last.code = ERR_INVALID_PUBLIC_KEY
           /\ \A k \in 1..Len(last.trace) : last.trace[k] = "clearOpenSSLErrors"

C8_Witness ==
    /\ last.op = "computeSecret" /\ Keyed(last.inst)
    /\ last.arg = [k \in 1..32 |-> 4]
    /\ last.code = ERR_INVALID_PUBLIC_KEY
    /\ last.trace = <<"clearOpenSSLErrors">>

(***************************************************************************)
(* C9  Decoding rejects malformed keys (the claim as it is worded): on an  *)
(* instance holding a key pair computeSecret fails for every 33-byte key   *)
(* whose first byte is not 0x02 or 0x03, every 65-byte key whose first     *)
(* byte is not 0x04, and every key of valid length and first byte whose    *)
(* coordinates are not on the curve.                                       *)
(***************************************************************************)
C9_DecodeRejectsMalformed ==
    (last.op = "computeSecret" /\ Keyed(last.inst))
        => LET a == last.arg
           IN (\/ Len(a) = 33 /\ a[1] \notin {2, 3}
               \/ Len(a) = 65 /\ a[1] # 4
               \/ Len(a) = 65 /\ a[1] = 4 /\ ~OnCurve(XOf(a), YOf(a))
               \/ Len(a) = 33 /\ a[1] \in {2, 3} /\ ~HasRoot(XOf(a)))
                  => ~last.ok

(***************************************************************************)
(* C10  The invalid-public-key code is distinguishable (the claim as it is *)
(* worded): every rejection of the remote key carries the code             *)
(* ERR_CRYPTO_ECDH_INVALID_PUBLIC_KEY, and the code is carried by nothing  *)
(* else: only by computeSecret on an instance holding a key pair, and      *)
(* never by a failure inside a library call.                               *)
(***************************************************************************)
C10_CodeOnlyForRejectedKeys ==
    /\ (last.op = "computeSecret" /\ Keyed(last.inst) /\ ~last.ok /\ ~last.internal)
           => last.code = ERR_INVALID_PUBLIC_KEY
    /\ last.code = ERR_INVALID_PUBLIC_KEY
           => /\ last.op = "computeSecret"
              /\ Keyed(last.inst)
              /\ ~last.ok
              /\ ~last.internal

(***************************************************************************)
(* C11  createECDH accepts exactly 'secp256k1'.  For that name it returns  *)
(* an instance bound to secp256k1; for every other name it throws an error *)
(* with code ERR_CRYPTO_INVALID_CURVE having constructed neither an ECDH   *)
(* instance nor a native object; no caller ever holds an instance bound to *)
(* another curve.                                                          *)
(***************************************************************************)
C11_OnlySecp256k1 ==
    /\ \A i \in Instances : curve[i] \in {NoCurve, "secp256k1"}
    /\ last.op = "createECDH" =>
          IF last.curveName = "secp256k1"
          THEN last.ok /\ curve[last.inst] = "secp256k1"
          ELSE /\ ~last.ok
               /\ last.code = ERR_INVALID_CURVE
               /\ last.trace = <<>>
               /\ curve[last.inst] = NoCurve

C11_Witness ==
    /\ last.op = "createECDH"
    /\ last.curveName = "invalid-curve"
    /\ last.code = ERR_INVALID_CURVE
    /\ ~Created(last.inst)

(***************************************************************************)
(* C12  Export formats.  Every public key returned by getPublicKey or      *)
(* generateKeys for a held pair with public point (x, y) is, in the        *)
(* uncompressed format, exactly 65 bytes: 0x04, then x in 32 bytes, then y *)
(* in 32 bytes; and in the compressed format exactly 33 bytes: 0x02 when y *)
(* is even and 0x03 when y is odd, then x in 32 bytes.                     *)
(***************************************************************************)
ReturnsPublicKey == last.op \in {"getPublicKey", "generateKeys"} /\ last.ok

C12_ExportFormats ==
    ReturnsPublicKey =>
        LET Q == pkey[last.inst].pub
            out == last.out
        IN /\ last.format = "compressed" =>
                /\ Len(out) = 33
                /\ out[1] = (IF Q[2] % 2 = 0 THEN 2 ELSE 3)
                /\ XOf(out) = Q[1]
           /\ last.format = "uncompressed" =>
                /\ Len(out) = 65
                /\ out[1] = 4
                /\ XOf(out) = Q[1]
                /\ YOf(out) = Q[2]

C12_Witness ==
    /\ last.op = "getPublicKey" /\ last.ok
    /\ last.format = "compressed"
    /\ pkey[last.inst].pub = <<8, 5>>
    /\ last.out = <<3>> \o BytesOf(8, 32)

(***************************************************************************)
(* C13  Default format.  generateKeys and getPublicKey return the 33-byte  *)
(* compressed form exactly when the format argument is 'compressed', and   *)
(* the 65-byte uncompressed form when it is omitted or is anything else;   *)
(* what generateKeys returns is the public key of the pair it has just     *)
(* installed.                                                              *)
(***************************************************************************)
\* The point a returned public key stands for, read off its bytes.
Denotes(out, Q) ==
    /\ XOf(out) = Q[1]
    /\ IF Len(out) = 65 THEN YOf(out) = Q[2] ELSE out[1] % 2 = Q[2] % 2

C14_PublicKeyRoundTrip ==
    /\ \A j \in Instances : \A e \in Exports(j) :
          EC_POINT_oct2point(e) = [ok |-> TRUE, pt |-> pkey[j].pub]
    /\ \A i \in Instances :
          (IsComputeSecret(i) /\ last.ok /\ last.arg \in Exports(Peer(i)))
              => /\ last.peer = <<pkey[Peer(i)].pub>>
                 /\ \A e \in Exports(Peer(i)) :
                        LET r == computeSecret(pkey[i], e, "none")
                        IN r.ok /\ r.out = last.out

C14_Witness ==
    \E i \in Instances :
        /\ IsComputeSecret(i) /\ last.ok
        /\ last.arg \in Exports(Peer(i))
        /\ Len(last.arg) = 33
        /\ \E e \in Exports(Peer(i)) : Len(e) = 65

Multiples == <<<<7, 5>>, <<8, 5>>, <<11, 8>>, <<11, 5>>, <<8, 8>>, <<7, 8>>>>

\* The k in 1..n-1 with Q = k*G.
LogOf(Q) == CHOOSE k \in 1..(OrderN - 1) : Multiples[k] = Q

\* d*Q for d in 1..n-1 and Q in the group: (d * LogOf(Q) mod n)*G.
Product(d, Q) == Multiples[(d * LogOf(Q)) % OrderN]

Negated(Q) == <<Q[1], FieldP - Q[2]>>

C16_SecretIsXCoordinate ==
    \A i \in Instances :
        (IsComputeSecret(i) /\ last.ok)
            => LET d == pkey[i].priv
                   Q == last.peer[1]
               IN /\ Len(last.out) = 32
                  /\ BigEndian(last.out) = Product(d, Q)[1]
                  /\ \A e \in {Enc65(4, Q[1], FieldP - Q[2]),
                               Enc33(2 + ((FieldP - Q[2]) % 2), Q[1])} :
                         LET r == computeSecret(pkey[i], e, "none")
                         IN r.ok /\ r.peer = <<Negated(Q)>> /\ r.out = last.out

C16_Witness ==
    \E i \in Instances :
        /\ IsComputeSecret(i) /\ last.ok
        /\ pkey[i].priv = 3
        /\ last.peer = <<<<8, 5>>>>
        /\ last.out = BytesOf(7, 32)

(***************************************************************************)
(* C17  The secret depends on the scalar and the remote point only.  When  *)
(* setPrivateKey(s) has just returned on an instance, whatever was done to *)
(* it before, and the other instance holds the scalar s, the two return    *)
(* the same result for every remote key; and every result computeSecret    *)
(* gives on a keyed instance (no library call failing) is the one a fresh  *)
(* key made of the held scalar alone gives for that remote key.            *)
(***************************************************************************)
\* What the caller sees of a call.
Seen(r) == [ok |-> r.ok, code |-> r.code, err |-> r.err, out |-> r.out]

C17_SecretDependsOnScalarAndPoint ==
    \A i \in Instances :
        /\ (last.op = "setPrivateKey" /\ last.inst = i /\ last.ok
              /\ Keyed(Peer(i)) /\ pkey[Peer(i)].priv = BigEndian(last.arg))
             => \A e \in RemoteKeyInputs \cup Exports(i) :
                    Seen(computeSecret(pkey[i], e, "none"))
                        = Seen(computeSecret(pkey[Peer(i)], e, "none"))
        /\ (IsComputeSecret(i) /\ Keyed(i) /\ ~last.internal)
             => LET d == pkey[i].priv
                IN Seen(last)
                     = Seen(computeSecret(EVP_PKEY(d, Multiples[d]), last.arg, "none"))

C17_Witness ==
    \E i \in Instances :
        /\ last.op = "setPrivateKey" /\ last.inst = i /\ last.ok
        /\ last.wasKeyed
        /\ Keyed(Peer(i)) /\ pkey[Peer(i)].priv = BigEndian(last.arg)
        /\ computeSecret(pkey[i], Enc33(3, 8), "none").ok

(***************************************************************************)
(* C18  Reads never write.  A step in which getPublicKey, getPrivateKey or *)
(* computeSecret runs, whether it returns or throws, leaves every field of *)
(* every instance (the curve and the key handle, hence the key pair and    *)
(* the empty/keyed state) as it was; the instance has no other field, so   *)
(* nothing derived is kept in it.                                          *)
(***************************************************************************)
C18_ReadsDoNotWrite ==
    [][(last = Idle /\ last'.op \in Reads) => (pkey' = pkey /\ curve' = curve)]_vars

\* A computeSecret that threw on a keyed instance, which still holds the
\* pair installed last.
C18_Witness ==
    /\ last.op = "computeSecret" /\ ~last.ok
    /\ last.wasKeyed
    /\ Keyed(last.inst)
    /\ pkey[last.inst] = lastInstalled[last.inst]

(***************************************************************************)
(* C19  Size check first.  A setPrivateKey step whose input is not exactly *)
(* 32 bytes throws 'Invalid private key size' having made no call at all   *)
(* (the bytes are not turned into a number, nothing is freed), and leaves  *)
(* every instance, the key pair the instance held included, as it was.     *)
(***************************************************************************)
C19_SizeRejectedFirst ==
    [][(last = Idle /\ last'.op = "setPrivateKey" /\ Len(last'.arg) # 32)
          => /\ ~last'.ok
             /\ last'.err = <<"Invalid private key size">>
             /\ last'.trace = <<>>
             /\ pkey' = pkey]_vars

\* A 31-byte key turned away by an instance that keeps its key pair.
C19_Witness ==
    /\ last.op = "setPrivateKey" /\ Len(last.arg) = 31
    /\ last.err = <<"Invalid private key size">>
    /\ last.wasKeyed
    /\ pkey[last.inst] = lastInstalled[last.inst]
    /\ getPrivateKey(pkey[last.inst], "none").ok

(***************************************************************************)
(* C20  Scalars are overwritten, not merely freed (the claim as it is      *)
(* worded): in every call that replaces a key pair or destroys the         *)
(* instance, on normal return and on every error exit, each release of an  *)
(* object holding a private scalar (the stored key, the temporary big      *)
(* integer of setPrivateKey) overwrites the scalar first.                  *)
(***************************************************************************)
\* The call replaces the pair of a keyed instance (for setPrivateKey: with a
\* scalar of the valid range) or destroys a keyed instance.
ReplacesOrDestroys ==
    /\ last.wasKeyed
    /\ \/ last.op \in {"generateKeys", "destroy"}
       \/ last.op = "setPrivateKey" /\ Len(last.arg) = 32
             /\ BigEndian(last.arg) \in 1..(OrderN - 1)

C20_ScalarsZeroized ==
    ReplacesOrDestroys =>
        \A k \in 1..Len(last.trace) :
            last.trace[k] \in ScalarFrees => Overwrites(last.trace[k])

(***************************************************************************)
(* C21.  No error depends on secret material.  Take two instances that     *)
(* hold different private scalars and give both the same call: the same    *)
(* operation, the same argument, the same failing library call.  Whenever  *)
(* one of the two calls fails, the other fails too, with the same message  *)
(* and the same code; and the message is one of the literals of the throw  *)
(* statements (followed at most by the library's error text), never bytes  *)
(* of a key or of a secret.                                                *)
(***************************************************************************)
Diagnostic(r) == [ok |-> r.ok, err |-> r.err, code |-> r.code]

SameDiagnostic(r1, r2) == (~r1.ok \/ ~r2.ok) => Diagnostic(r1) = Diagnostic(r2)

\* The texts of the throw statements of the native object and of ecdh.ts.
ErrorLiterals ==
    {"No key pair generated", "No key pair available", "No public key available",
     "No private key available", "Invalid private key size", "Private key out of range",
     ERR_INVALID_PUBLIC_KEY, "Failed to allocate BIGNUM for order",
     "Failed to create EC_KEY: ", "Failed to generate EC key: ",
     "Failed to create EVP_PKEY: ", "Failed to set EC_KEY on EVP_PKEY: ",
     "Failed to get EC_KEY: ", "Failed to get public key size: ",
     "Failed to export public key: ", "Failed to export private key: ",
     "Failed to create BIGNUM from private key: ", "Failed to get curve order: ",
     "Failed to set private key: ", "Failed to create EC_POINT: ",
     "Failed to compute public key: ", "Failed to set public key: ",
     "Failed to set peer public key: ", "Failed to create peer EVP_PKEY: ",
     "Failed to set peer EC_KEY: ", "Failed to create derive context: ",
     "Failed to init derive: ", "Failed to get secret length: ",
     "Failed to derive secret: ",
     "ERR_CRYPTO_ECDH_INVALID_PUBLIC_KEY: Invalid EC public key"}

LiteralDiagnostic(r) ==
    r.ok \/ (r.err[1] \in ErrorLiterals
               /\ (Len(r.err) = 1 \/ r.err = MsgSSL(r.err[1])))

C21_ErrorsIndependentOfSecrets ==
    \A i \in Instances :
        LET j == Peer(i)
            a == pkey[i]
            b == pkey[j]
        IN (last = Idle /\ Keyed(i) /\ Keyed(j) /\ a.priv # b.priv) =>
            /\ \A f \in FaultsOf("getPublicKey") : \A fmt \in Formats :
                 /\ SameDiagnostic(getPublicKey(a, fmt, f), getPublicKey(b, fmt, f))
                 /\ LiteralDiagnostic(getPublicKey(a, fmt, f))
            /\ \A f \in FaultsOf("getPrivateKey") :
                 /\ SameDiagnostic(getPrivateKey(a, f), getPrivateKey(b, f))
                 /\ LiteralDiagnostic(getPrivateKey(a, f))
            /\ \A f \in FaultsOf("computeSecret") : \A e \in RemoteKeysUnder(f) :
                 /\ SameDiagnostic(computeSecret(a, e, f), computeSecret(b, e, f))
                 /\ LiteralDiagnostic(computeSecret(a, e, f))
            /\ \A f \in FaultsOf("setPrivateKey") : \A k \in PrivateKeysUnder(f) :
                 /\ SameDiagnostic(setPrivateKey(a, k, f), setPrivateKey(b, k, f))
                 /\ LiteralDiagnostic(setPrivateKey(a, k, f))
            /\ \A f \in FaultsOf("generateKeys") : \A d \in Scalars :
                 /\ SameDiagnostic(ECDH_generateKeys(a, d, undefined, f),
                                   ECDH_generateKeys(b, d, undefined, f))
                 /\ LiteralDiagnostic(ECDH_generateKeys(a, d, undefined, f))

\* A call has failed on an instance that holds a scalar, while the other
\* instance holds a different one.
C21_Witness ==
    /\ last.op \in Reads \cup {"setPrivateKey", "generateKeys"}
    /\ ~last.ok
    /\ last.wasKeyed
    /\ Keyed(Peer(last.inst))
    /\ lastInstalled[last.inst] # NULL
    /\ lastInstalled[last.inst].priv # pkey[Peer(last.inst)].priv

(***************************************************************************)
(* C22.  Instances are isolated.  A call on one instance (creation,        *)
(* generateKeys, setPrivateKey, getPublicKey, getPrivateKey,               *)
(* computeSecret, destruction), whatever its outcome, leaves the key       *)
(* handle and the curve of every other instance as they were.              *)
(***************************************************************************)
C22_InstancesIsolated ==
    [][\A j \in Instances :
          (last = Idle /\ last' # Idle /\ last'.inst # j)
             => pkey'[j] = pkey[j] /\ curve'[j] = curve[j]]_vars

\* An instance's key is replaced or destroyed while the other instance
\* holds a key.
C22_Witness ==
    /\ last.op \in {"generateKeys", "setPrivateKey", "destroy"}
    /\ last.wasKeyed
    /\ Keyed(Peer(last.inst))
    /\ pkey[Peer(last.inst)] = lastInstalled[Peer(last.inst)]

(***************************************************************************)
(* C25.  A rejected setPrivateKey leaves the instance as it was.  When     *)
(* setPrivateKey throws because its argument is not 32 bytes long, or      *)
(* because the scalar is 0 or at least n, the instance's key handle after  *)
(* the call is the one it had before: a keyed instance keeps its scalar    *)
(* and its public point.                                                   *)
(***************************************************************************)
C25_RejectedImportKeepsKey ==
    [][(/\ last = Idle
        /\ last'.op = "setPrivateKey"
        /\ ~last'.ok
        /\ last'.err \in {<<"Invalid private key size">>, <<"Private key out of range">>})
          => pkey' = pkey]_vars

(***************************************************************************)
(* C26.  The stored key is all-or-nothing.  In every reachable state,      *)
(* failed calls included, each instance's key handle is either null or     *)
(* holds both a private scalar and its public point; and no call ever      *)
(* fails with 'No public key available' or 'No private key available'.     *)
(***************************************************************************)
PartialKeyErrors == {<<"No public key available">>, <<"No private key available">>}

C26_KeyAllOrNothing ==
    /\ \A i \in Instances :
          \/ pkey[i] = NULL
          \/ /\ pkey[i].hasPriv /\ pkey[i].hasPub
             /\ pkey[i].pub = EC_POINT_mul(pkey[i].priv, Gen)
    /\ last.err \notin PartialKeyErrors

\* A replacement of a held key has failed part-way (after the scalar was
\* set on the new EC_KEY), and a read follows on the same instance.
C26_Witness ==
    /\ last.op \in {"getPublicKey", "getPrivateKey"}
    /\ ~last.wasKeyed
    /\ lastInstalled[last.inst] # NULL
    /\ pkey[last.inst] = NULL

(***************************************************************************)
(* C29.  In computeSecret the test for a missing key pair comes before any *)
(* look at the remote key.  On an instance that holds no key pair, every   *)
(* argument, well-formed or not, of any length, fails with 'No key pair    *)
(* available'; the error carries no code, and no library call is made.     *)
(***************************************************************************)
C29_NoKeyPairCheckedFirst ==
    (last.op = "computeSecret" /\ ~last.wasKeyed) =>
        /\ ~last.ok
        /\ last.err = <<"No key pair available">>
        /\ last.code = NoCode
        /\ last.code # ERR_INVALID_PUBLIC_KEY
        /\ last.trace = <<>>

\* computeSecret was called on an empty instance with a remote key of a
\* length other than 33 or 65.
C29_Witness ==
    /\ last.op = "computeSecret"
    /\ ~last.wasKeyed
    /\ ~ValidRemoteKey(last.arg)
    /\ Len(last.arg) \notin {CompressedLen, UncompressedLen}

(***************************************************************************)
(* C27.  Every object a native operation allocates is released exactly     *)
(* once on every exit path.  In the calls of any operation, normal return  *)
(* or throw: each successful allocation (EC_KEY, BIGNUM, EC_POINT,         *)
(* EVP_PKEY, derive context, byte buffer) is followed by exactly one       *)
(* release of that object, except the EVP_PKEY that becomes the            *)
(* instance's key handle and the buffer handed to the returned             *)
(* ArrayBuffer, which are followed by none; and every release is of an     *)
(* object allocated earlier in the same operation, or is the one release   *)
(* of the key the instance held when a replacement or the destructor       *)
(* began.                                                                  *)
(***************************************************************************)
AllocCalls ==
    {"EC_KEY_new_by_curve_name", "BN_bin2bn", "BN_new", "EC_POINT_new", "EVP_PKEY_new",
     "EVP_PKEY_CTX_new", "new uint8_t[]"}

\* The release of what an allocation returns, by the variable that holds it.
FreeOf(op, alloc) ==
    IF op = "computeSecret"
    THEN CASE alloc = "EC_KEY_new_by_curve_name" -> "EC_KEY_free(peerEc)"
           [] alloc = "EC_POINT_new" -> "EC_POINT_free(peerPoint)"
           [] alloc = "EVP_PKEY_new" -> "EVP_PKEY_free(peerKey)"
           [] alloc = "EVP_PKEY_CTX_new" -> "EVP_PKEY_CTX_free(ctx)"
           [] alloc = "new uint8_t[]" -> "delete[] secret"
           [] OTHER -> "none"
    ELSE CASE alloc = "EC_KEY_new_by_curve_name" -> "EC_KEY_free(ec)"
           [] alloc = "BN_bin2bn" -> "BN_free(privBn)"
           [] alloc = "BN_new" -> "BN_free(order)"
           [] alloc = "EC_POINT_new" -> "EC_POINT_free(pubPoint)"
           [] alloc = "EVP_PKEY_new" -> "EVP_PKEY_free(pkey)"
           [] alloc = "new uint8_t[]" -> "delete[] buf"
           [] OTHER -> "none"

FreeCalls == {FreeOf(op, a) : op \in {"computeSecret", "other"}, a \in AllocCalls}

\* The position of the library call that failed (0 when none did): the
\* last call of the operation that is not a release.
FailedAt(tr) ==
    IF ~last.internal \/ \A k \in 1..Len(tr) : tr[k] \in FreeCalls THEN 0
    ELSE CHOOSE k \in 1..Len(tr) :
            tr[k] \notin FreeCalls /\ \A m \in (k + 1)..Len(tr) : tr[m] \in FreeCalls

Allocated(tr, k) == tr[k] \in AllocCalls /\ k # FailedAt(tr)

\* The object allocated at position k outlives the operation: the key that
\* is now the instance's handle, or the buffer of the returned ArrayBuffer.
Kept(tr, k) ==
    \/ tr[k] = "EVP_PKEY_new" /\ last.op \in {"generateKeys", "setPrivateKey"}
          /\ Keyed(last.inst)
    \/ tr[k] = "new uint8_t[]" /\ last.ok

ReleasesAfter(tr, k) ==
    Cardinality({m \in (k + 1)..Len(tr) : tr[m] = FreeOf(last.op, tr[k])})

\* The releases that are of no object allocated earlier in the operation.
ReleasesOfHeld(tr) ==
    {m \in 1..Len(tr) :
        /\ tr[m] \in FreeCalls
        /\ ~\E k \in 1..(m - 1) : Allocated(tr, k) /\ FreeOf(last.op, tr[k]) = tr[m]}

Live(pk) == IF pk.null \/ pk.freed THEN 0 ELSE 1

HandleKeysCreated ==
    Cardinality({k \in 1..Len(last.trace) :
                    /\ last.op \in {"generateKeys", "setPrivateKey"}
                    /\ last.trace[k] = "EVP_PKEY_new"
                    /\ Allocated(last.trace, k)})

HandleKeysFreed ==
    Cardinality({k \in 1..Len(last.trace) : last.trace[k] = "EVP_PKEY_free(pkey)"})

C28_HandleNeverDangles ==
    [][(last = Idle /\ last' # Idle) =>
          \A i \in Instances :
              /\ ~pkey'[i].freed
              /\ (i = last'.inst /\ last'.op \in Reads) => ~pkey[i].freed
              /\ i = last'.inst =>
                    Live(pkey[i]) + HandleKeysCreated' - HandleKeysFreed' = Live(pkey'[i])]_vars

\* A replacement of a held key has failed after the held key was freed:
\* the handle is null, not a pointer to the freed key.
C28_Witness ==
    /\ last.op \in {"generateKeys", "setPrivateKey"}
    /\ last.wasKeyed
    /\ last.internal
    /\ Called("EVP_PKEY_free(pkey)")
    /\ pkey[last.inst] = NULL

(***************************************************************************)
(* C24.  Output encoding.  With no encoding argument generateKeys,         *)
(* getPublicKey and getPrivateKey return the raw bytes as a Buffer.  With  *)
(* 'hex' they return a string of exactly twice as many characters as       *)
(* there are bytes (130 for an uncompressed public key, 66 for a           *)
(* compressed one, 64 for a private key), all hex digits, whose k-th pair  *)
(* of digits is the k-th byte.  With 'latin1', and with 'binary' treated   *)
(* as 'latin1' both ways, the k-th character is the k-th byte.             *)
(* setPrivateKey(str, enc) accepts what getPrivateKey(enc) returned and    *)
(* installs the same scalar; and decoding what was encoded gives back the  *)
(* bytes, for any byte string.                                             *)
(***************************************************************************)
IsHexOf(str, bytes) ==
    /\ Len(str) = 2 * Len(bytes)
    /\ \A k \in 1..Len(bytes) :
          /\ HexDigitValue(str[2 * k - 1]) \in 0..15
          /\ HexDigitValue(str[2 * k]) \in 0..15
          /\ 16 * HexDigitValue(str[2 * k - 1]) + HexDigitValue(str[2 * k]) = bytes[k]

ExportedLength ==
    IF codec.op = "getPrivateKey" THEN PrivLen
    ELSE IF codec.format = "compressed" THEN CompressedLen ELSE UncompressedLen

C24_OutputEncoding ==
    /\ codec.stage \in {"exported", "imported", "probed"} =>
          /\ codec.encoding = undefined => ~codec.out.string /\ codec.out.data = codec.raw
          /\ codec.encoding = "hex" => codec.out.string /\ IsHexOf(codec.out.data, codec.raw)
          /\ codec.encoding \in {"latin1", "binary"} =>
                /\ codec.out.string
                /\ codec.out.data = codec.raw
                /\ codec.out = encodeOutput(codec.raw, "latin1")
                /\ decodeInput(codec.out, "binary") = decodeInput(codec.out, "latin1")
    /\ codec.stage \in {"exported", "imported"} =>
          /\ codec.ok
          /\ Len(codec.raw) = ExportedLength
          /\ codec.encoding = "hex" => Len(codec.out.data) \in {130, 66, 64}
    /\ codec.stage = "imported" =>
          /\ codec.ok
          /\ codec.back = codec.raw
          /\ codec.priv = codec.d
    /\ codec.stage = "probed" => codec.back = codec.raw

\* A private key exported as a hex string has been imported back.
C24_Witness ==
    /\ codec.stage = "imported"
    /\ codec.encoding = "hex"
    /\ Len(codec.out.data) = 64
    /\ codec.priv = codec.d

InGap(i) == writer.active /\ writer.inst = i

C23_GapOnlyWhenInterleaved ==
    /\ \A i \in Instances :
          (~writer.active /\ writer.inst = i /\ writer.outcome = "ok")
             => Keyed(i) /\ pkey[i] = writer.new
    /\ (last.op \in Reads /\ last.err \in NoKeyPairErrors)
          => \/ InGap(last.inst)
             \/ writer.outcome # "ok"

\* A reader has found no key pair in an instance that held one, inside a
\* replacement that goes on to succeed.
C23_Witness ==
    /\ last.op \in Reads
    /\ last.err \in NoKeyPairErrors
    /\ InGap(last.inst)
    /\ ~writer.old.null
    /\ writer.ok
    /\ ~writer.new.null

====
